---- MODULE Spec2Model ----
(***************************************************************************)
(* Model of CheckBinanceApp2.0.py: the BinanceApp window (API check,       *)
(* symbol input, interval combo, analyze button, result display) and the   *)
(* MarketAnalysisThread worker (run, get_historical_data, market_analysis, *)
(* trading_decision).                                                      *)
(*                                                                         *)
(* Texts are sequences of one-character strings.  Numbers that pandas/ta   *)
(* hand to the program are either NaN or a value: NaN is the empty         *)
(* sequence, a value v is <<v>>.  Prices are integers in units of 1/Sub of *)
(* the last printed decimal (10^-8), so that the ":.8f" formatting rounds. *)
(***************************************************************************)
EXTENDS Integers, Sequences, FiniteSets, TLC

VARIABLES
    credentials_file, \* api_credentials.txt: <<>> when absent, else <<key, secret>>
    api_key,        \* BinanceApp.api_key ("" stands for None or empty)
    api_secret,     \* BinanceApp.api_secret
    client,         \* BinanceApp.client: "None" or "Client"
    symbol_input,   \* text of the symbol QLineEdit
    symbol_style,   \* border colour set by validate_symbols
    interval_combo, \* current text of the interval QComboBox
    result_text,    \* text shown by the result QTextEdit
    message,        \* the last QMessageBox shown
    threads,        \* the MarketAnalysisThread objects started so far
    events,         \* queued update_result signals not yet delivered to the GUI
    verified,       \* history: outcome of the most recent check_api_validity
    actions,        \* history: number of user actions so far
    snap,           \* classification harness: the data frame handed to the worker
    outcome,        \* classification harness: what lines 214-215 produced
    reply,          \* loop-body harness: the provider's answer to the pending request
    shown           \* history: the worker whose emission result_text holds (0: none)

vars == <<credentials_file, api_key, api_secret, client, symbol_input, symbol_style, interval_combo,
          result_text, message, threads, events, verified, actions, snap, outcome,
          reply, shown>>

guiVars == <<credentials_file, api_key, api_secret, client, symbol_input, symbol_style, interval_combo,
             result_text, message, verified, actions, shown>>

-----------------------------------------------------------------------------
(* Bounds of the model *)

\* longest symbol list typed that is within the batch limit
MaxTickers == 2
\* number of workers started in one session
MaxBatches == 2
\* number of user actions (typing, selecting, clicking) in one session
MaxUserActions == 3

(* Program constants *)

\* analyze_market / validate_symbols: len(symbols) > 10
MaxSymbols == 10
\* run: len(data) < 14
MinRows == 14
\* get_historical_data: limit=100
Limit == 100
\* market_analysis thresholds
AdxTrend == 25
AdxFlat == 20
RsiHigh == 70
RsiLow == 30
\* trading_decision: latest_atr * 2
AtrMult == 2
\* price units per printed decimal (10^-8): ":.8f" rounds to a multiple of Sub
Sub == 10

-----------------------------------------------------------------------------
(* Numbers with NaN *)

NaN == <<>>
Num(v) == <<v>>
IsNaN(x) == x = <<>>
\* Python float comparison: any comparison with NaN is False
Gt(x, y) == ~IsNaN(x) /\ ~IsNaN(y) /\ x[1] > y[1]
Lt(x, y) == ~IsNaN(x) /\ ~IsNaN(y) /\ x[1] < y[1]

-----------------------------------------------------------------------------
(* Text: str.strip, str.split(","), str.upper *)

Letters == <<"a", "b", "c", "d", "e", "f", "g", "h", "i", "j", "k", "l">>
Uppers  == <<"A", "B", "C", "D", "E", "F", "G", "H", "I", "J", "K", "L">>

RECURSIVE LStrip(_)
LStrip(s) == IF s # <<>> /\ Head(s) = " " THEN LStrip(Tail(s)) ELSE s

RECURSIVE RStrip(_)
RStrip(s) ==
    IF s # <<>> /\ s[Len(s)] = " " THEN RStrip(SubSeq(s, 1, Len(s) - 1)) ELSE s

Strip(s) == RStrip(LStrip(s))

UpperChar(c) ==
    IF \E i \in 1..Len(Letters) : Letters[i] = c
    THEN Uppers[CHOOSE i \in 1..Len(Letters) : Letters[i] = c]
    ELSE c

Upper(s) == [i \in 1..Len(s) |-> UpperChar(s[i])]

\* s.split(","): always at least one piece; "" splits into [""]
RECURSIVE Split(_)
Split(s) ==
    IF \E i \in 1..Len(s) : s[i] = ","
    THEN LET i == CHOOSE j \in 1..Len(s) :
                      s[j] = "," /\ \A k \in 1..(j - 1) : s[k] # ","
         IN  <<SubSeq(s, 1, i - 1)>> \o Split(SubSeq(s, i + 1, Len(s)))
    ELSE <<s>>

\* [s.strip().upper() for s in symbols_input.split(",")] of the stripped text
ParseSymbols(text) ==
    LET pieces == Split(Strip(text))
    IN  [i \in 1..Len(pieces) |-> Upper(Strip(pieces[i]))]

validate_symbols(text) ==
    IF Len(ParseSymbols(text)) > MaxSymbols THEN "red" ELSE "green"

-----------------------------------------------------------------------------
(* What the provider and the indicator library hand to the worker *)

\* typed symbol lists: n tickers "a, b ,c ..." with blanks around some of them
RECURSIVE TextOf(_)
TextOf(n) ==
    IF n = 0 THEN <<>>
    ELSE IF n = 1 THEN <<" ", Letters[1]>>
    ELSE TextOf(n - 1) \o <<",">>
         \o (IF n % 2 = 0 THEN <<" ", Letters[n], " ">> ELSE <<Letters[n]>>)

SymbolTexts ==
    {TextOf(n) : n \in 1..MaxTickers} \cup {TextOf(MaxSymbols + 1)}
    \cup {<<" ", " ">>, <<Letters[1], ",">>}

Intervals == {"4h", "1d"}

\* last closing prices: 3 units (below twice the ATR) and 100 printed units
Closes == {3, 100 * Sub}

\* latest indicator values of a frame whose prices moved
MovingFrames ==
    {[close |-> c, atr |-> a, macd |-> m[1], signal |-> m[2],
      adx |-> x, rsi |-> r] :
        c \in Closes,
        a \in {2, 2 * Sub},
        m \in {<<Num(2), Num(1)>>, <<Num(1), Num(1)>>, <<Num(0), Num(1)>>,
               <<NaN, NaN>>},
        x \in {NaN, Num(15), Num(AdxFlat), Num(22), Num(AdxTrend), Num(30)},
        r \in {Num(RsiLow), Num(50), Num(RsiHigh)}}

\* a frame of identical candles: every true range is 0, so ATR is 0, the
\* directional index is 0/0 = NaN, MACD equals its signal and RSI is 100
FlatFrames ==
    {[close |-> c, atr |-> 0, macd |-> Num(0), signal |-> Num(0),
      adx |-> NaN, rsi |-> Num(100)] : c \in Closes}

FlatFrame == CHOOSE f \in FlatFrames : f.close = 100 * Sub

Frames == MovingFrames \cup FlatFrames

\* the frames the provider's rows give in a batch run: one per outcome of
\* lines 214-215 (a buy report, a "no action" report, no return value)
RunFrames ==
    {f \in MovingFrames :
        /\ f.close = 100 * Sub /\ f.atr = 2 * Sub /\ f.rsi = Num(50)
        /\ << f.adx, f.macd >> \in {<<Num(30), Num(2)>>, <<Num(30), Num(1)>>,
                                    <<Num(15), Num(1)>>}}

\* what client.futures_klines answers: rows, or an exception
Responses ==
    {[status |-> "ok", rows |-> n, frame |-> f] :
        n \in {MinRows, Limit}, f \in RunFrames}
    \cup {[status |-> "ok", rows |-> n, frame |-> FlatFrame] :
        n \in {0, MinRows - 1}}
    \cup {[status |-> s, rows |-> 0, frame |-> FlatFrame] :
        s \in {"BinanceAPIException", "OtherException"}}

-----------------------------------------------------------------------------
(* MarketAnalysisThread: get_historical_data, market_analysis, trading_decision *)

\* the interval get_historical_data passes to futures_klines
KlinesInterval == "1d"

PyNone == <<"None">>

\* the data frame, None on BinanceAPIException, or the exception raised
get_historical_data(resp) ==
    IF resp.status = "ok" THEN [kind |-> "frame", rows |-> resp.rows, frame |-> resp.frame]
    ELSE IF resp.status = "BinanceAPIException"
    THEN [kind |-> "None", rows |-> 0, frame |-> resp.frame]
    ELSE [kind |-> "raise", rows |-> 0, frame |-> resp.frame]

\* market_analysis with the RSI bounds 70 and 30 taken inclusively
market_analysis_RsiInclusive(data) ==
    IF Gt(data.adx, Num(AdxTrend))
    THEN IF Gt(data.macd, data.signal) /\ ~Gt(data.rsi, Num(RsiHigh))
         THEN <<"Tang", "mua">>
         ELSE IF Lt(data.macd, data.signal) /\ ~Lt(data.rsi, Num(RsiLow))
         THEN <<"Giam", "ban">>
         ELSE PyNone
    ELSE IF Lt(data.adx, Num(AdxFlat))
    THEN <<"Di ngang", "khong">>
    ELSE <<"Khong on dinh", "khong">>

\* market_analysis with the labels of its last two branches exchanged
market_analysis_LabelsSwapped(data) ==
    IF Gt(data.adx, Num(AdxTrend))
    THEN IF Gt(data.macd, data.signal) /\ Lt(data.rsi, Num(RsiHigh))
         THEN <<"Tang", "mua">>
         ELSE IF Lt(data.macd, data.signal) /\ Gt(data.rsi, Num(RsiLow))
         THEN <<"Giam", "ban">>
         ELSE PyNone
    ELSE IF Lt(data.adx, Num(AdxFlat))
    THEN <<"Khong on dinh", "khong">>
    ELSE <<"Di ngang", "khong">>

\* market_analysis entering the trend branch at ADX = 25 already
market_analysis_TrendInclusive(data) ==
    IF Gt(data.adx, Num(AdxTrend)) \/ data.adx = Num(AdxTrend)
    THEN IF Gt(data.macd, data.signal) /\ Lt(data.rsi, Num(RsiHigh))
         THEN <<"Tang", "mua">>
         ELSE IF Lt(data.macd, data.signal) /\ Gt(data.rsi, Num(RsiLow))
         THEN <<"Giam", "ban">>
         ELSE PyNone
    ELSE IF Lt(data.adx, Num(AdxFlat))
    THEN <<"Di ngang", "khong">>
    ELSE <<"Khong on dinh", "khong">>

\* a (trend, signal) pair, or None when no return statement is reached
market_analysis(data) ==
    IF Gt(data.adx, Num(AdxTrend))
    THEN IF Gt(data.macd, data.signal) /\ Lt(data.rsi, Num(RsiHigh))
         THEN <<"Tang", "mua">>
         ELSE IF Lt(data.macd, data.signal) /\ Gt(data.rsi, Num(RsiLow))
         THEN <<"Giam", "ban">>
         ELSE PyNone
    ELSE IF Lt(data.adx, Num(AdxFlat))
    THEN <<"Di ngang", "khong">>
    ELSE <<"Khong on dinh", "khong">>

\* f"{x:.8f}": the nearest multiple of 10^-8, ties to even
Fmt8(x) ==
    LET q == x \div Sub
        r == x % Sub
    IN  IF 2 * r < Sub THEN q
        ELSE IF 2 * r > Sub THEN q + 1
        ELSE IF q % 2 = 0 THEN q ELSE q + 1

\* Figures with the buy figures taken on the wrong side of the close
Figures_BuyBelow(data, signal) ==
    IF signal = "mua"
    THEN <<data.close - data.atr * AtrMult, data.close + data.atr * AtrMult>>
    ELSE IF signal = "ban"
    THEN <<data.close - data.atr * AtrMult, data.close + data.atr * AtrMult>>
    ELSE <<>>

\* the figures <<tp, sl>> trading_decision computes before it prints them
Figures(data, signal) ==
    IF signal = "mua"
    THEN <<data.close + data.atr * AtrMult, data.close - data.atr * AtrMult>>
    ELSE IF signal = "ban"
    THEN <<data.close - data.atr * AtrMult, data.close + data.atr * AtrMult>>
    ELSE <<>>

\* trading_decision sizing the sell order with one ATR instead of two
trading_decision_OneAtr(data, trend, signal) ==
    LET fig == Figures(data, signal)
    IN  IF signal = "mua"
        THEN <<"Mo lenh mua", Fmt8(fig[1]), Fmt8(fig[2])>>
        ELSE IF signal = "ban"
        THEN <<"Mo lenh ban", Fmt8(data.close - data.atr), Fmt8(data.close + data.atr)>>
        ELSE <<"Khong khuyen nghi hanh dong">>

\* the decision text: the order opened with its printed TP and SL, or no action
trading_decision(data, trend, signal) ==
    LET fig == Figures(data, signal)
    IN  IF signal = "mua"
        THEN <<"Mo lenh mua", Fmt8(fig[1]), Fmt8(fig[2])>>
        ELSE IF signal = "ban"
        THEN <<"Mo lenh ban", Fmt8(fig[1]), Fmt8(fig[2])>>
        ELSE <<"Khong khuyen nghi hanh dong">>

\* "trend, signal = self.market_analysis(data)" and the decision after it:
\* unpacking anything but a pair raises TypeError
Analyse(data) ==
    LET ret == market_analysis(data)
    IN  IF Len(ret) # 2
        THEN [raised |-> "TypeError", ret |-> ret, trend |-> "", signal |-> "",
              decision |-> <<>>]
        ELSE [raised |-> "", ret |-> ret, trend |-> ret[1], signal |-> ret[2],
              decision |-> trading_decision(data, ret[1], ret[2])]

\* lines of the accumulated result text
Analysing(symbol) == <<"Dang phan tich", symbol>>
NoData(symbol) == <<"Khong the lay du lieu", symbol>>
TooShort(symbol) == <<"khong du de phan tich ADX", symbol>>
Report(symbol, trend, signal, decision) ==
    <<"Phan tich cho", symbol, trend, signal, decision>>

\* events of a worker's log (history)
FetchEv(i, interval) == [ev |-> "fetch", i |-> i, arg |-> <<interval>>]
EmitEv(i, text) == [ev |-> "emit", i |-> i, arg |-> text]
SleepEv(i) == [ev |-> "msleep", i |-> i, arg |-> <<>>]
CancelEv(i) == [ev |-> "cancel", i |-> i, arg |-> <<>>]

\* MarketAnalysisThread(client, symbols, progress_dialog), not yet iterating
NewThread(symbols, chosen) ==
    [symbols |-> symbols, idx |-> 0,
     pc |-> IF Len(symbols) = 0 THEN "done" ELSE "loop",
     result |-> <<>>, log |-> <<>>, raised |-> "", chosen |-> chosen,
     progress_dialog |-> "open"]

\* LoopSymbol walking the list from its end
LoopSymbol_Reversed(t) == t.symbols[Len(t.symbols) - t.idx]

\* the symbol of the current iteration of "for idx, symbol in enumerate(...)"
LoopSymbol(t) == t.symbols[t.idx + 1]

\* Continue staying on a symbol whose request gave no data
Continue_Retry(t) ==
    IF t.result[Len(t.result)] = NoData(t.symbols[t.idx + 1])
    THEN [t EXCEPT !.pc = "loop"]
    ELSE [t EXCEPT !.idx = @ + 1,
                   !.pc = IF t.idx + 1 < Len(t.symbols) THEN "loop" ELSE "done"]

\* the loop moves to the next symbol, or ends
Continue(t) ==
    [t EXCEPT !.idx = @ + 1,
              !.pc = IF t.idx + 1 < Len(t.symbols) THEN "loop" ELSE "done"]

\* start of an iteration: the header line, then the request to the provider
Iterate(t) ==
    [t EXCEPT !.result = Append(@, Analysing(LoopSymbol(t))),
              !.log = Append(@, FetchEv(t.idx + 1, KlinesInterval)),
              !.pc = "fetching"]

\* the rest of the loop body once the provider has answered with resp:
\* the worker afterwards, and the texts it emitted through update_result
LoopBody(t, resp) ==
    LET data == get_historical_data(resp)
        symbol == LoopSymbol(t)
    IN  IF data.kind = "raise"
        THEN [thread |-> [t EXCEPT !.pc = "raised", !.raised = "OtherException"],
              emitted |-> <<>>]
        ELSE IF data.kind = "None" \/ data.rows = 0
        THEN [thread |-> Continue([t EXCEPT !.result = Append(@, NoData(symbol))]),
              emitted |-> <<>>]
        ELSE IF data.rows < MinRows
        THEN [thread |-> Continue([t EXCEPT !.result = Append(@, TooShort(symbol))]),
              emitted |-> <<>>]
        ELSE LET a == Analyse(data.frame)
             IN  IF a.raised # ""
                 THEN [thread |-> [t EXCEPT !.pc = "raised", !.raised = a.raised],
                       emitted |-> <<>>]
                 ELSE LET result == Append(t.result,
                                           Report(symbol, a.trend, a.signal, a.decision))
                      IN  [thread |-> Continue(
                               [t EXCEPT !.result = result,
                                         !.log = @ \o <<EmitEv(t.idx + 1, result),
                                                        SleepEv(t.idx + 1)>>]),
                           emitted |-> <<result>>]

-----------------------------------------------------------------------------
(* BinanceApp *)

Credentials == {"", "k"}

\* the state after BinanceApp.__init__: init_ui, then load_api_credentials
AppInit(file) ==
    /\ credentials_file = file
    /\ api_key = IF file = <<>> THEN "" ELSE file[1]
    /\ api_secret = IF file = <<>> THEN "" ELSE file[2]
    /\ client = "None"
    /\ symbol_input = <<>>
    /\ symbol_style = ""
    /\ interval_combo = "4h"
    /\ result_text = <<>>
    /\ message = ""
    /\ threads = <<>>
    /\ events = <<>>
    /\ verified = "never"
    /\ actions = 0
    /\ shown = 0

Init ==
    /\ \E file \in {<<>>, <<"k", "k">>} : AppInit(file)
    /\ snap = FlatFrame
    /\ outcome = <<>>
    /\ reply = <<>>

UserActs == actions < MaxUserActions /\ actions' = actions + 1

\* the user edits the symbol field: textChanged runs validate_symbols
TypeSymbols ==
    /\ UserActs
    /\ \E text \in SymbolTexts :
          /\ text # symbol_input
          /\ symbol_input' = text
          /\ symbol_style' = validate_symbols(text)
    /\ UNCHANGED <<credentials_file, api_key,
                   api_secret, client, interval_combo, result_text, shown, message,
                   threads, events, verified, snap, outcome, reply>>

\* the user picks another entry of the interval combo box
SelectInterval ==
    /\ UserActs
    /\ \E i \in Intervals : i # interval_combo /\ interval_combo' = i
    /\ UNCHANGED <<credentials_file, api_key,
                   api_secret, client, symbol_input, symbol_style, result_text,
                   shown, message, threads, events, verified, snap, outcome, reply>>

\* the "verify" button: key and secret are the texts of the two credential
\* fields, answer is what futures_account_balance does
check_api_validity ==
    /\ UserActs
    /\ \E key \in Credentials, secret \in Credentials :
          /\ api_key' = key
          /\ api_secret' = secret
          /\ IF key = "" \/ secret = ""
             THEN /\ message' = "API Key va Secret khong duoc de trong"
                  /\ verified' = "empty"
                  /\ UNCHANGED <<client, credentials_file>>
             ELSE /\ client' = "Client"
                  /\ \E answer \in {"ok", "BinanceAPIException"} :
                        IF answer = "ok"
                        THEN /\ message' = "API Key va Secret hop le"
                             /\ verified' = "ok"
                             /\ credentials_file' = <<key, secret>>
                        ELSE /\ message' = "API khong hop le"
                             /\ verified' = "rejected"
                             /\ UNCHANGED credentials_file
    /\ UNCHANGED <<symbol_input, symbol_style, interval_combo, result_text,
                   shown, threads, events, snap, outcome, reply>>

\* BatchRejected with the limit off by one
BatchRejected_OffByOne(symbols) == Len(symbols) = 0 \/ Len(symbols) > MaxSymbols + 1

\* "not symbols or len(symbols) > 10"
BatchRejected(symbols) == Len(symbols) = 0 \/ Len(symbols) > MaxSymbols

\* the "analyze" button
analyze_market ==
    /\ UserActs
    /\ IF client = "None"
       THEN /\ message' = "Vui long xac minh API truoc"
            /\ UNCHANGED threads
       ELSE LET symbols == ParseSymbols(symbol_input)
            IN  IF BatchRejected(symbols)
                THEN /\ message' = "Vui long nhap toi da 10 dong coin"
                     /\ UNCHANGED threads
                ELSE /\ Len(threads) < MaxBatches
                     /\ threads' = Append(threads, NewThread(symbols, interval_combo))
                     /\ UNCHANGED message
    /\ UNCHANGED <<credentials_file, api_key,
                   api_secret, client, symbol_input, symbol_style, interval_combo,
                   result_text, shown, events, verified, snap, outcome, reply>>

\* the number of symbols worker t has begun
Begun(t) == IF t.pc \in {"fetching", "raised"} THEN t.idx + 1 ELSE t.idx

\* the user presses "Huy" on the progress dialog of batch w: the dialog is
\* canceled; nothing in the program reads that
ProgressCancel(w) ==
    /\ UserActs
    /\ threads[w].progress_dialog = "open"
    /\ threads' = [threads EXCEPT ![w].progress_dialog = "canceled",
                                  ![w].log = Append(@, CancelEv(Begun(threads[w])))]
    /\ UNCHANGED <<credentials_file, api_key,
                   api_secret, client, symbol_input, symbol_style, interval_combo,
                   result_text, shown, message, events, verified, snap, outcome, reply>>

\* the GUI thread delivers the oldest queued update_result signal to its slot
update_result ==
    /\ events # <<>>
    /\ result_text' = Head(events).text
    /\ shown' = Head(events).from
    /\ events' = Tail(events)
    /\ UNCHANGED <<credentials_file, api_key,
                   api_secret, client, symbol_input, symbol_style, interval_combo,
                   message, threads, verified, actions, snap, outcome, reply>>

-----------------------------------------------------------------------------
(* MarketAnalysisThread.run *)

\* worker w starts the iteration for its next symbol and calls the provider
RunFetch(w) ==
    /\ threads[w].pc = "loop"
    /\ threads' = [threads EXCEPT ![w] = Iterate(@)]
    /\ UNCHANGED <<guiVars, events, snap, outcome, reply>>

\* worker w, waiting for the provider, is answered resp and finishes the
\* iteration; what it emits is queued for the GUI thread
Answered(w, resp) ==
    /\ threads[w].pc = "fetching"
    /\ LET step == LoopBody(threads[w], resp)
       IN  /\ threads' = [threads EXCEPT ![w] = step.thread]
           /\ events' = events \o [i \in 1..Len(step.emitted) |->
                                       [from |-> w, text |-> step.emitted[i]]]
    /\ UNCHANGED <<guiVars, snap, outcome, reply>>

\* the provider answers worker w
RunHandle(w) == \E resp \in Responses : Answered(w, resp)

Next ==
    \/ TypeSymbols
    \/ SelectInterval
    \/ check_api_validity
    \/ analyze_market
    \/ \E w \in 1..Len(threads) : ProgressCancel(w)
    \/ update_result
    \/ \E w \in 1..Len(threads) : RunFetch(w)
    \/ \E w \in 1..Len(threads) : RunHandle(w)

Spec == Init /\ [][Next]_vars

-----------------------------------------------------------------------------
(* market_analysis and trading_decision on every frame they can be given *)

ClassifyInit ==
    /\ AppInit(<<>>)
    /\ snap \in Frames
    /\ outcome = <<>>
    /\ reply = <<>>

\* lines 214-215 of run on the frame snap
Classify ==
    /\ outcome = <<>>
    /\ outcome' = <<Analyse(snap)>>
    /\ UNCHANGED <<guiVars, threads, events, snap, reply>>

ClassifySpec == ClassifyInit /\ [][Classify]_vars

-----------------------------------------------------------------------------
(* one iteration of run on every answer the provider can give *)

\* every answer of futures_klines: rows of any frame, or an exception
Replies ==
    {[status |-> "ok", rows |-> n, frame |-> f] :
        n \in {MinRows - 1, MinRows, Limit}, f \in Frames}
    \cup {[status |-> "ok", rows |-> 0, frame |-> FlatFrame]}
    \cup {[status |-> s, rows |-> 0, frame |-> FlatFrame] :
        s \in {"BinanceAPIException", "OtherException"}}

\* a worker waiting for the answer to the request for its first symbol
LoopBodyInit ==
    /\ credentials_file = <<"k", "k">>
    /\ api_key = "k"
    /\ api_secret = "k"
    /\ client = "Client"
    /\ verified = "ok"
    /\ symbol_style = "green"
    /\ interval_combo = "4h"
    /\ result_text = <<>>
    /\ shown = 0
    /\ message = "API Key va Secret hop le"
    /\ actions = 0
    /\ \E n \in 1..MaxTickers :
          /\ symbol_input = TextOf(n)
          /\ threads = <<Iterate(NewThread(ParseSymbols(TextOf(n)), "4h"))>>
    /\ events = <<>>
    /\ snap = FlatFrame
    /\ outcome = <<>>
    /\ reply \in Replies

\* lines 204-223 of run on the answer reply
LoopBodyStep == Answered(1, reply)

LoopBodySpec == LoopBodyInit /\ [][LoopBodyStep]_vars

-----------------------------------------------------------------------------
(* Properties *)

Workers == 1..Len(threads)
EventsOf(t, kind) == SelectSeq(t.log, LAMBDA e : e.ev = kind)
Classified == outcome # <<>>

\* the two inner conditions of the "adx_value > 25" branch
BuyCondition(data) == Gt(data.macd, data.signal) /\ Lt(data.rsi, Num(RsiHigh))
SellCondition(data) == Lt(data.macd, data.signal) /\ Gt(data.rsi, Num(RsiLow))

\* C1: for every frame with ADX > 25 in which neither inner condition holds,
\* market_analysis returns the pair (Unstable, None); it always returns a pair.
C1_FallthroughIsUnstable ==
    Classified =>
        /\ Len(outcome[1].ret) = 2
        /\ (Gt(snap.adx, Num(25)) /\ ~BuyCondition(snap) /\ ~SellCondition(snap))
              => outcome[1].ret = <<"Khong on dinh", "khong">>

\* C2: a worker that finished its batch of n symbols has emitted exactly n
\* results, the i-th for the i-th symbol.
C2_OneResultPerSymbol ==
    \A w \in Workers :
        threads[w].pc = "done" =>
            LET emits == EventsOf(threads[w], "emit")
            IN  /\ Len(emits) = Len(threads[w].symbols)
                /\ \A i \in 1..Len(emits) : emits[i].i = i

\* C3: no per-symbol outcome aborts a batch: no worker's run ends in an exception.
C3_NoOutcomeAborts ==
    \A w \in Workers : threads[w].pc # "raised" /\ threads[w].raised = ""

\* C4: a worker handles its symbols one after the other in request order: the
\* provider is asked for positions 1, 2, ... in turn, a request is made only when
\* every earlier symbol has its header and its outcome line in the result, the
\* result text lists the symbols in request order, and every emitted text is
\* that ordered text up to the symbol it is emitted for.
C4_SequentialInOrder ==
    \A w \in Workers :
        LET t == threads[w]
            fetches == EventsOf(t, "fetch")
        IN  /\ \A k \in 1..Len(t.result) :
                  /\ t.result[k][2] = t.symbols[(k + 1) \div 2]
                  /\ (k % 2 = 1) <=> (t.result[k][1] = "Dang phan tich")
            /\ \A k \in 1..Len(fetches) : fetches[k].i = k
            /\ \A k \in 1..(Len(t.log) - 1) : t.log[k].i <= t.log[k + 1].i
            /\ \A k \in 1..Len(t.log) :
                  t.log[k].ev = "emit" =>
                      t.log[k].arg = SubSeq(t.result, 1, 2 * t.log[k].i)
            /\ t.pc = "fetching" =>
                  Len(fetches) = t.idx + 1 /\ Len(t.result) = 2 * t.idx + 1
            /\ t.pc \in {"loop", "done"} =>
                  Len(fetches) = t.idx /\ Len(t.result) = 2 * t.idx

C4_Witness ==
    \E w \in Workers :
        /\ threads[w].pc = "done"
        /\ Len(threads[w].symbols) = 2
        /\ threads[w].symbols[1] # threads[w].symbols[2]
        /\ Len(EventsOf(threads[w], "emit")) = 2

\* C5: no worker ever runs on more than 10 symbols, and while the symbol field
\* holds more than 10 symbols no step starts a worker: the request has no
\* worker, hence no provider call and no emission.
C5_OverLimitRejected ==
    /\ [](\A w \in Workers : Len(threads[w].symbols) <= 10)
    /\ [][(Len(ParseSymbols(symbol_input)) > 10 /\ symbol_input' = symbol_input)
            => Len(threads') = Len(threads)]_vars

C5_Witness ==
    /\ client = "Client"
    /\ Len(ParseSymbols(symbol_input)) = 11
    /\ message = "Vui long nhap toi da 10 dong coin"
    /\ threads = <<>>
    /\ events = <<>>

\* C6: every worker is started with 1 to 10 tickers, none of them empty.
C6_NonEmptyTickers ==
    \A w \in Workers :
        /\ Len(threads[w].symbols) \in 1..10
        /\ \A i \in 1..Len(threads[w].symbols) : threads[w].symbols[i] # <<>>

\* C7: whenever lines 214-215 yield a buy signal the computed take-profit is
\* above the last close and the stop-loss below it; for a sell signal the
\* stop-loss is above the last close and the take-profit below it.
C7_DirectionMatchesSignal ==
    (Classified /\ outcome[1].raised = "") =>
        LET fig == Figures(snap, outcome[1].signal)
        IN  /\ outcome[1].signal = "mua" =>
                  fig[1] > snap.close /\ snap.close > fig[2]
            /\ outcome[1].signal = "ban" =>
                  fig[2] > snap.close /\ snap.close > fig[1]

C7_Witness ==
    /\ Classified
    /\ outcome[1].signal = "mua"
    /\ snap.close = 3
    /\ snap.atr = 2

\* C8: a worker's log shows, before the request for any symbol after the first,
\* an emission for the symbol before it, and a finished worker has emitted for
\* its last symbol.
C8_EmittedBeforeNextFetch ==
    \A w \in Workers :
        LET t == threads[w]
            EmittedFor(i, before) ==
                \E j \in 1..(before - 1) : t.log[j].ev = "emit" /\ t.log[j].i = i
        IN  /\ \A k \in 1..Len(t.log) :
                  (t.log[k].ev = "fetch" /\ t.log[k].i > 1)
                      => EmittedFor(t.log[k].i - 1, k)
            /\ t.pc = "done" => EmittedFor(Len(t.symbols), Len(t.log) + 1)

\* C9: every request a worker makes asks for the interval that was selected in
\* the combo box when the worker was started.
C9_FetchUsesChosenInterval ==
    \A w \in Workers :
        \A k \in 1..Len(threads[w].log) :
            threads[w].log[k].ev = "fetch"
                => threads[w].log[k].arg = <<threads[w].chosen>>

\* C10: for last close c and ATR a, a buy signal gives the buy order with
\* TP c + 2a and SL c - 2a, a sell signal the sell order with TP c - 2a and
\* SL c + 2a (each printed to 8 decimals), and no signal gives "no action".
C10_DecisionFigures ==
    (Classified /\ outcome[1].raised = "") =>
        LET c == snap.close
            a == snap.atr
            o == outcome[1]
        IN  /\ o.signal = "mua" =>
                  o.decision = <<"Mo lenh mua", Fmt8(c + 2 * a), Fmt8(c - 2 * a)>>
            /\ o.signal = "ban" =>
                  o.decision = <<"Mo lenh ban", Fmt8(c - 2 * a), Fmt8(c + 2 * a)>>
            /\ o.signal \notin {"mua", "ban"} =>
                  o.decision = <<"Khong khuyen nghi hanh dong">>

\* the example: close 100, ATR 2, buy: TP 104 and SL 96 (printed units)
C10_Witness ==
    /\ Classified
    /\ snap.close = 100 * Sub
    /\ snap.atr = 2 * Sub
    /\ outcome[1].decision = <<"Mo lenh mua", 104, 96>>

\* a frame value as a plain number (only asked of values that are not NaN)
Val(x) == x[1]
HasAdx == Classified /\ ~IsNaN(snap.adx)
MacdAbove == ~IsNaN(snap.macd) /\ ~IsNaN(snap.signal) /\ Val(snap.macd) > Val(snap.signal)
MacdBelow == ~IsNaN(snap.macd) /\ ~IsNaN(snap.signal) /\ Val(snap.macd) < Val(snap.signal)

\* C11: with ADX > 25, MACD above its signal and RSI < 70 give (Uptrend, Buy);
\* otherwise MACD below its signal and RSI > 30 give (Downtrend, Sell); RSI of
\* exactly 70 does not give Buy and RSI of exactly 30 does not give Sell.
C11_TrendBranch ==
    (HasAdx /\ Val(snap.adx) > 25) =>
        LET ret == outcome[1].ret
            rsi == Val(snap.rsi)
        IN  /\ (MacdAbove /\ rsi < 70) => ret = <<"Tang", "mua">>
            /\ (~(MacdAbove /\ rsi < 70) /\ MacdBelow /\ rsi > 30)
                  => ret = <<"Giam", "ban">>
            /\ rsi = 70 => ret # <<"Tang", "mua">>
            /\ rsi = 30 => ret # <<"Giam", "ban">>

C11_Witness ==
    /\ HasAdx
    /\ Val(snap.adx) = 30
    /\ MacdBelow
    /\ Val(snap.rsi) = 70
    /\ outcome[1].ret = <<"Giam", "ban">>
    /\ outcome[1].decision[1] = "Mo lenh ban"

\* C12 as claimed: every frame with ADX <= 20, 20 included, is (Sideways, None).
C12_SidewaysUpTo20 ==
    (HasAdx /\ Val(snap.adx) <= 20) => outcome[1].ret = <<"Di ngang", "khong">>

\* C12 as amended: every frame with ADX < 20 is (Sideways, None), whatever its
\* MACD and RSI; a frame with ADX = 20 is (Unstable, None).
C12_SidewaysBelow20 ==
    /\ (HasAdx /\ Val(snap.adx) < 20) => outcome[1].ret = <<"Di ngang", "khong">>
    /\ (HasAdx /\ Val(snap.adx) = 20) => outcome[1].ret = <<"Khong on dinh", "khong">>

C12_Witness ==
    /\ HasAdx
    /\ Val(snap.adx) = 15
    /\ MacdAbove
    /\ Val(snap.rsi) = 50
    /\ outcome[1].ret = <<"Di ngang", "khong">>

\* C13: every frame with 20 <= ADX <= 25 is (Unstable, None), whatever its MACD
\* and RSI.
C13_UnstableBand ==
    (HasAdx /\ Val(snap.adx) >= 20 /\ Val(snap.adx) <= 25)
        => /\ outcome[1].ret = <<"Khong on dinh", "khong">>
           /\ outcome[1].decision = <<"Khong khuyen nghi hanh dong">>

C13_Witness ==
    /\ HasAdx
    /\ Val(snap.adx) = 25
    /\ MacdAbove
    /\ Val(snap.rsi) = 50
    /\ outcome[1].ret = <<"Khong on dinh", "khong">>

\* C14: before the request for any symbol but the first, the worker has made
\* the pacing delay that follows the symbol before it, whatever that symbol's
\* outcome was.
C14_PacedBetweenFetches ==
    \A w \in Workers :
        LET log == threads[w].log
        IN  \A k \in 1..Len(log) :
                (log[k].ev = "fetch" /\ log[k].i > 1)
                    => \E j \in 1..(k - 1) :
                          log[j].ev = "msleep" /\ log[j].i = log[k].i - 1

\* the worker of the loop-body harness has finished its iteration
Handled == threads[1].pc # "fetching"
LastLine(t) == t.result[Len(t.result)]

\* C15: whatever error the provider's call ends with, the iteration does not
\* raise: the symbol gets the no-data line and the loop goes on.
C15_ErrorsAreNoData ==
    (Handled /\ reply.status # "ok")
        => /\ threads[1].pc \in {"loop", "done"}
           /\ threads[1].raised = ""
           /\ LastLine(threads[1]) = NoData(threads[1].symbols[1])

\* C16: a symbol with exactly 14 usable rows gets a report with trend, signal
\* and recommendation; a symbol with 13 usable rows gets the insufficient-data
\* line.
C16_FourteenRowsSuffice ==
    (Handled /\ reply.status = "ok")
        => /\ reply.rows = 14
              => /\ threads[1].pc \in {"loop", "done"}
                 /\ Len(LastLine(threads[1])) = 5
                 /\ LastLine(threads[1])[1] = "Phan tich cho"
           /\ reply.rows = 13
              => LastLine(threads[1]) = TooShort(threads[1].symbols[1])

\* C17: within one batch the provider is asked at most once per position of
\* the symbol list, so a symbol whose request failed is not asked for again.
C17_NoRetry ==
    \A w \in Workers :
        LET fetches == EventsOf(threads[w], "fetch")
        IN  /\ Len(fetches) <= Len(threads[w].symbols)
            /\ \A j \in 1..Len(fetches) : \A k \in 1..Len(fetches) :
                  j # k => fetches[j].i # fetches[k].i

C17_Witness ==
    \E w \in Workers :
        /\ threads[w].pc = "done"
        /\ Len(threads[w].symbols) = 2
        /\ threads[w].result[2] = NoData(threads[w].symbols[1])
        /\ Len(EventsOf(threads[w], "fetch")) = 2

\* C18: once Cancel was pressed on a batch's progress dialog, its worker makes
\* no request for a symbol it had not begun.
C18_NoFetchAfterCancel ==
    \A w \in Workers :
        LET log == threads[w].log
        IN  \A j \in 1..Len(log) : \A k \in 1..Len(log) :
                (j < k /\ log[j].ev = "cancel")
                    => ~(log[k].ev = "fetch" /\ log[k].i > log[j].i)

\* C19: analyze_market starts a worker only when the most recent
\* check_api_validity succeeded.
C19_StartsOnlyVerified ==
    [][Len(threads') > Len(threads) => verified = "ok"]_vars

\* C20: once the display holds an emission of a later batch, it is never
\* overwritten by an emission of an earlier batch.
C20_DisplayNeverGoesBack ==
    [][shown' >= shown]_vars

====
